---- MODULE Spec2Model ----
(***************************************************************************)
(* Model of go/src/types/types.go: the mal value representation, the       *)
(* structural equality Equal_Q, the hash-map constructor NewHashMap, the   *)
(* application dispatch Apply and the JSON decoder of ListMalType.         *)
(*                                                                         *)
(* A Go interface value (MalType) is a tuple whose first component is the  *)
(* name of its dynamic type; the remaining components are the payload.     *)
(***************************************************************************)
EXTENDS Integers, Sequences, FiniteSets, TLC

VARIABLES
    eqA, eqB, eqRes,      \* Equal_Q: the two arguments and the outcome
    hmSeq, hmRes,         \* NewHashMap: the argument and the (value, error) returned
    apF, apArgs,          \* Apply: the callee and the arguments
    apCalls, apRes,       \* Apply: the callbacks invoked, in order, and the (value, error) returned
    dcWire,               \* JSONUnmarshal: the wire text
    dcAst, dcErr          \* JSONUnmarshal: the destination List and the error returned

eqVars == <<eqA, eqB, eqRes>>
hmVars == <<hmSeq, hmRes>>
apVars == <<apF, apArgs, apCalls, apRes>>
dcVars == <<dcWire, dcAst, dcErr>>
vars == <<eqVars, hmVars, apVars, dcVars>>

\* Longest List / Vector of the equality inputs.
MaxLen == 2
\* Longest sequence handed to NewHashMap.
MaxHmLen == 4
\* Most arguments handed to Apply.
MaxArgs == 2
\* Most elements of the top-level list of a wire text.
MaxWireLen == 2

(***************************************************************************)
(* Values                                                                  *)
(***************************************************************************)
\* reflect.TypeOf(obj): the dynamic type; the nil interface has the nil Type.
TypeOf(obj) == obj[1]

Nil == <<"nil">>
MkBool(b) == <<"bool", b>>
MkInt(n) == <<"int", n>>
\* A Go string is a pair: whether it starts with the marker U+029E, and the
\* text after the marker (the whole text when there is none).
Str(kw, text) == <<kw, text>>
Plain(text) == Str(FALSE, text)
MkString(s) == <<"string", s>>
Symbol(val) == <<"Symbol", val>>
\* Func{Fn, Meta}: Fn is a Go func value, named here by an identifier.
Func(fn, meta) == <<"Func", fn, meta>>
\* MalFunc{Eval, Exp, Env, Params, IsMacro, GenEnv, Meta}
MalFunc(eval, exp, env, params, isMacro, genEnv, meta) ==
    <<"MalFunc", eval, exp, env, params, isMacro, genEnv, meta>>
List(val, meta) == <<"List", val, meta>>
Vector(val, meta) == <<"Vector", val, meta>>
HashMap(val, meta) == <<"HashMap", val, meta>>
\* Atom{Val, Meta} held by value, and *Atom, a pointer to one.
Atom(val, meta) == <<"Atom", val, meta>>
AtomPtr(addr) == <<"*Atom", addr>>
\* What encoding/json builds for an interface{} destination.
JsonNumber(lit) == <<"json.Number", lit>>
Float64(digits) == <<"float64", digits>>
GoSlice(elems) == <<"[]interface {}", elems>>
GoMap(m) == <<"map[string]interface {}", m>>

\* "\u029e" + s, for a text s without the marker.
NewKeyword(s) == MkString(Str(TRUE, s))

(***************************************************************************)
(* Predicates                                                              *)
(***************************************************************************)
Nil_Q(obj) == obj = Nil
True_Q(obj) == TypeOf(obj) = "bool" /\ obj[2] = TRUE
False_Q(obj) == TypeOf(obj) = "bool" /\ obj[2] = FALSE
Number_Q(obj) == TypeOf(obj) = "int"
Symbol_Q(obj) == TypeOf(obj) = "Symbol"
Keyword_Q(obj) == TypeOf(obj) = "string" /\ obj[2][1]
String_Q(obj) == TypeOf(obj) = "string"
Func_Q(obj) == TypeOf(obj) = "Func"
MalFunc_Q(obj) == TypeOf(obj) = "MalFunc"
List_Q(obj) == TypeOf(obj) = "List"
Vector_Q(obj) == TypeOf(obj) = "Vector"
HashMap_Q(obj) == TypeOf(obj) = "HashMap"
Atom_Q(obj) == TypeOf(obj) = "*Atom"

Sequential_Q(seq) ==
    IF seq = Nil THEN FALSE
    ELSE TypeOf(seq) = "List" \/ TypeOf(seq) = "Vector"

\* GetSlice: [err, val]
GetSlice(seq) ==
    CASE TypeOf(seq) = "List" -> [err |-> "", val |-> seq[2]]
      [] TypeOf(seq) = "Vector" -> [err |-> "", val |-> seq[2]]
      [] OTHER -> [err |-> "GetSlice called on non-sequence", val |-> <<>>]

(***************************************************************************)
(* Equal_Q                                                                 *)
(*                                                                         *)
(* A call ends in "true", "false" or "panic" (Go's == on two interface     *)
(* values of one uncomparable dynamic type panics).  The range over a Go   *)
(* map visits the keys in an unspecified order, so a call has a set of     *)
(* possible outcomes.                                                      *)
(***************************************************************************)
BoolOutcome(b) == IF b THEN "true" ELSE "false"

\* Dynamic types Go cannot compare with ==: a func, or a struct holding a
\* func, a slice or a map.
Uncomparable ==
    {"Func", "MalFunc", "func", "List", "Vector", "HashMap",
     "[]interface {}", "map[string]interface {}"}

\* a == b on two interface values.
RECURSIVE InterfaceEq(_, _)
InterfaceEq(a, b) ==
    IF TypeOf(a) # TypeOf(b) THEN "false"
    ELSE IF TypeOf(a) \in Uncomparable THEN "panic"
    ELSE IF TypeOf(a) = "Atom"
         THEN LET first == InterfaceEq(a[2], b[2])
              IN  IF first # "true" THEN first ELSE InterfaceEq(a[3], b[3])
         ELSE BoolOutcome(a = b)

\* The type-compatibility gate of Equal_Q.
TypeGate(a, b) ==
    (TypeOf(a) = TypeOf(b)) \/ (Sequential_Q(a) /\ Sequential_Q(b))

\* len(as) != len(bs)
SliceLenDiffers(as, bs) == Len(as) # Len(bs)

\* A variant of MapLenDiffers that never sees a difference.
MapLenDiffersNever(am, bm) == FALSE

\* len(am) != len(bm)
MapLenDiffers(am, bm) == Cardinality(DOMAIN am) # Cardinality(DOMAIN bm)

\* bm[k]: the zero value nil when k is not a key.
MapIndex(bm, k) == IF k \in DOMAIN bm THEN bm[k] ELSE Nil

RECURSIVE Equal_Q(_, _)
RECURSIVE EqualSlices(_, _, _)

\* for i := ...; if !Equal_Q(as[i], bs[i]) { return false }; return true
EqualSlices(as, bs, i) ==
    IF i > Len(as) THEN {"true"}
    ELSE LET here == Equal_Q(as[i], bs[i])
         IN  (here \ {"true"})
             \cup (IF "true" \in here THEN EqualSlices(as, bs, i + 1) ELSE {})

\* for k, v := range am { if !Equal_Q(v, bm[k]) { return false } }; return true
EqualMaps(am, bm) ==
    LET at(k) == Equal_Q(am[k], MapIndex(bm, k))
    IN  (UNION {at(k) \ {"true"} : k \in DOMAIN am})
        \cup (IF \A k \in DOMAIN am : "true" \in at(k) THEN {"true"} ELSE {})

Equal_Q(a, b) ==
    IF ~TypeGate(a, b) THEN {"false"}
    ELSE CASE TypeOf(a) = "Symbol" -> {BoolOutcome(a[2] = b[2])}
           [] TypeOf(a) \in {"List", "Vector"} ->
                LET as == GetSlice(a).val
                    bs == GetSlice(b).val
                IN  IF SliceLenDiffers(as, bs) THEN {"false"}
                    ELSE EqualSlices(as, bs, 1)
           [] TypeOf(a) = "HashMap" ->
                IF MapLenDiffers(a[2], b[2]) THEN {"false"}
                ELSE EqualMaps(a[2], b[2])
           [] OTHER -> {InterfaceEq(a, b)}

(***************************************************************************)
(* NewHashMap                                                              *)
(***************************************************************************)
ErrOdd == "Odd number of arguments to NewHashMap"
ErrKey == "expected hash-map key string"

\* A variant of StorePair that keeps the value a key already has.
StorePairKeepFirst(m, str, val) ==
    [k \in DOMAIN m \cup {str} |-> IF k \in DOMAIN m THEN m[k] ELSE val]

\* m[str] = lst[i+1]
StorePair(m, str, val) ==
    [k \in DOMAIN m \cup {str} |-> IF k = str THEN val ELSE m[k]]

\* len(lst)%2 == 1
OddLength(lst) == Len(lst) % 2 = 1

\* for i := 0; i < len(lst); i += 2 { ... }, from the 1-based position i on.
RECURSIVE HashMapLoop(_, _, _)
HashMapLoop(lst, i, m) ==
    IF i > Len(lst) THEN [val |-> HashMap(m, Nil), err |-> ""]
    ELSE IF TypeOf(lst[i]) # "string" THEN [val |-> Nil, err |-> ErrKey]
    ELSE HashMapLoop(lst, i + 2, StorePair(m, lst[i][2], lst[i + 1]))

NewHashMap(seq) ==
    LET got == GetSlice(seq)
    IN  IF got.err # "" THEN [val |-> Nil, err |-> got.err]
        ELSE IF OddLength(got.val) THEN [val |-> Nil, err |-> ErrOdd]
        ELSE HashMapLoop(got.val, 1, <<>>)

(***************************************************************************)
(* Apply                                                                   *)
(*                                                                         *)
(* The callbacks (GenEnv, Eval, Fn) belong to the caller: what each        *)
(* returns is an input.  A call of Apply yields the callbacks it invoked,  *)
(* in order, each with its arguments and what it returned, and the         *)
(* (value, error) pair Apply returns.                                      *)
(***************************************************************************)
SetMacro(f) == [f EXCEPT ![6] = TRUE]
GetMacro(f) == f[6]

ErrInvalid == "Invalid function to Apply"

\* A variant of ApplyMalFunc that evaluates the body whatever GenEnv returned.
ApplyMalFuncNoErrorCheck(f, a, gen, ev) ==
    [calls |-> << <<"GenEnv", f[7], f[4], f[5], List(a, Nil), gen.env, gen.err>>,
                  <<"Eval", f[2], f[3], gen.env, ev.val, ev.err>> >>,
     val |-> ev.val, err |-> ev.err]

\* case MalFunc: gen is what f.GenEnv returns, ev what f.Eval returns.
ApplyMalFunc(f, a, gen, ev) ==
    LET genCall == <<"GenEnv", f[7], f[4], f[5], List(a, Nil), gen.env, gen.err>>
    IN  IF gen.err # ""
        THEN [calls |-> <<genCall>>, val |-> Nil, err |-> gen.err]
        ELSE [calls |-> <<genCall, <<"Eval", f[2], f[3], gen.env, ev.val, ev.err>> >>,
              val |-> ev.val, err |-> ev.err]

\* fn is what the host function returns.
Apply(f_mt, a, gen, ev, fn) ==
    CASE TypeOf(f_mt) = "MalFunc" -> ApplyMalFunc(f_mt, a, gen, ev)
      [] TypeOf(f_mt) = "Func" ->
            [calls |-> << <<"Fn", f_mt[2], a, fn.val, fn.err>> >>,
             val |-> fn.val, err |-> fn.err]
      [] TypeOf(f_mt) = "func" ->
            [calls |-> << <<"Fn", f_mt[2], a, fn.val, fn.err>> >>,
             val |-> fn.val, err |-> fn.err]
      [] OTHER -> [calls |-> <<>>, val |-> Nil, err |-> ErrInvalid]

(***************************************************************************)
(* The wire tree                                                           *)
(*                                                                         *)
(* A JSON text is its syntax tree; an object is the sequence of its        *)
(* (key, node) members in input order.  WBad is a byte sequence that is    *)
(* not a JSON text (truncated input).                                      *)
(***************************************************************************)
WNull == <<"null">>
WBool(b) == <<"bool", b>>
WNum(lit) == <<"number", lit>>
WStr(s) == <<"string", s>>
WArr(elems) == <<"array", elems>>
WObj(members) == <<"object", members>>
WBad == <<"malformed">>

Kind(node) == node[1]
Keys(obj) == {obj[2][i][1] : i \in 1..Len(obj[2])}
\* m[key] of the decoded object: the last member of that name.
Member(obj, key) ==
    LET at == {i \in 1..Len(obj[2]) : obj[2][i][1] = key}
    IN  obj[2][CHOOSE i \in at : \A j \in at : j <= i][2]

BigLit == "123456789012345678901234567890"

\* strconv.ParseFloat(lit, 64), as the decimal expansion of the float64.
ParseFloat(lit) ==
    CASE lit = "1" -> "1"
      [] lit = "2" -> "2"
      [] lit = BigLit -> "123456789012345677877719597056"

\* The number a decoder stores in an interface{}: d.convertNumber.
ConvertNumber(lit, useNumber) ==
    IF useNumber THEN JsonNumber(lit) ELSE Float64(ParseFloat(lit))

\* Decoding into an interface{} destination: d.valueInterface.
RECURSIVE ValueInterface(_, _)
ValueInterface(node, useNumber) ==
    CASE Kind(node) = "null" -> Nil
      [] Kind(node) = "bool" -> MkBool(node[2])
      [] Kind(node) = "number" -> ConvertNumber(node[2], useNumber)
      [] Kind(node) = "string" -> MkString(node[2])
      [] Kind(node) = "array" ->
            GoSlice([i \in 1..Len(node[2]) |-> ValueInterface(node[2][i], useNumber)])
      [] Kind(node) = "object" ->
            GoMap([k \in {Plain(key) : key \in Keys(node)} |->
                      ValueInterface(Member(node, k[2]), useNumber)])

(***************************************************************************)
(* Decoding into the structs Symbol, Atom, List, HashMap, Vector, Func     *)
(***************************************************************************)
\* The reserved discriminant fields, in the order UnmarshalJSON probes them.
Discriminants == <<"symbol", "atom", "list", "hashmap", "vector", "fn">>

\* The struct a discriminant decodes into.
StructOf(tag) ==
    CASE tag = "symbol" -> "Symbol"
      [] tag = "atom" -> "Atom"
      [] tag = "list" -> "List"
      [] tag = "hashmap" -> "HashMap"
      [] tag = "vector" -> "Vector"
      [] tag = "fn" -> "Func"

\* The json field tags of a struct.
FieldTags(T) ==
    CASE T = "Symbol" -> {"symbol"}
      [] T = "Atom" -> {"atom", "meta"}
      [] T = "List" -> {"list", "meta"}
      [] T = "HashMap" -> {"hashmap", "meta"}
      [] T = "Vector" -> {"vector", "meta"}
      [] T = "Func" -> {"fn", "meta"}

\* The zero value of a struct.
Zero(T) ==
    CASE T = "Symbol" -> Symbol(Plain(""))
      [] T = "Atom" -> Atom(Nil, Nil)
      [] T = "List" -> List(<<>>, Nil)
      [] T = "HashMap" -> HashMap(<<>>, Nil)
      [] T = "Vector" -> Vector(<<>>, Nil)
      [] T = "Func" -> Func("nil", Nil)

ErrSyntax == "json: syntax error"
ErrType == "json: cannot unmarshal into Go value"
ErrUnknownField == "json: unknown field"
ErrUnknownType == "json-decode of unknown type"
ErrDecodeOf(tag) ==
    CASE tag = "symbol" -> "json-decode of symbol failed"
      [] tag = "atom" -> "json-decode of atom failed"
      [] tag = "list" -> "json-decode of list failed"
      [] tag = "hashmap" -> "json-decode of hashmap failed"
      [] tag = "vector" -> "json-decode of vector failed"
      [] tag = "fn" -> "json-decode of fn failed"

\* d.saveError: the first error is kept.
SaveError(saved, e) == IF saved = "" THEN e ELSE saved

\* The if / else-if chain over m["symbol"], m["atom"], ...
FirstDiscriminant(obj) ==
    LET found == {i \in 1..Len(Discriminants) : Discriminants[i] \in Keys(obj)}
    IN  IF found = {} THEN "none"
        ELSE Discriminants[CHOOSE i \in found : \A j \in found : i <= j]

RECURSIVE UnmarshalJSON(_, _)
RECURSIVE UnmarshalElements(_, _, _)
RECURSIVE DecodeStruct(_, _, _, _)
RECURSIVE DecodeMembers(_, _, _, _, _)

\* d.object on a struct: the members from position i on; acc is
\* [val, saved, err]: the struct so far, the saved error, the error that
\* ends the decoding at once.
DecodeMembers(T, obj, i, acc, mode) ==
    IF i > Len(obj[2]) \/ acc.err # "" THEN acc
    ELSE
      LET key == obj[2][i][1]
          node == obj[2][i][2]
          val == acc.val
          typeError == [acc EXCEPT !.saved = SaveError(acc.saved, ErrType)]
          next ==
            CASE key \notin FieldTags(T) ->
                   IF mode.strict
                   THEN [acc EXCEPT !.saved = SaveError(acc.saved, ErrUnknownField)]
                   ELSE acc
              [] key = "meta" ->
                   [acc EXCEPT !.val[3] = ValueInterface(node, mode.useNumber)]
              [] key = "symbol" ->
                   CASE Kind(node) = "string" -> [acc EXCEPT !.val[2] = node[2]]
                     [] Kind(node) = "null" -> acc
                     [] OTHER -> typeError
              [] key = "atom" ->
                   [acc EXCEPT !.val[2] = ValueInterface(node, mode.useNumber)]
              [] key = "list" ->
                   LET r == UnmarshalJSON(val[2], node)
                   IN  [acc EXCEPT !.val[2] = r.j, !.err = r.err]
              [] key = "vector" ->
                   CASE Kind(node) = "array" ->
                          [acc EXCEPT !.val[2] =
                              [n \in 1..Len(node[2]) |->
                                  ValueInterface(node[2][n], mode.useNumber)]]
                     [] Kind(node) = "null" -> [acc EXCEPT !.val[2] = <<>>]
                     [] OTHER -> typeError
              [] key = "hashmap" ->
                   CASE Kind(node) = "object" ->
                          [acc EXCEPT !.val[2] =
                              [k \in {Plain(name) : name \in Keys(node)} |->
                                  ValueInterface(Member(node, k[2]), mode.useNumber)]]
                     [] Kind(node) = "null" -> [acc EXCEPT !.val[2] = <<>>]
                     [] OTHER -> typeError
              [] key = "fn" ->
                   IF Kind(node) = "null" THEN acc ELSE typeError
      IN  DecodeMembers(T, obj, i + 1, next, mode)

\* Decoder.Decode(&res) for res of struct type T holding val:
\* [val, err] with the struct as the decoder leaves it.
DecodeStruct(T, val, node, mode) ==
    CASE Kind(node) = "malformed" -> [val |-> val, err |-> ErrSyntax]
      [] Kind(node) = "null" -> [val |-> val, err |-> ""]
      [] Kind(node) = "object" ->
            LET acc == DecodeMembers(T, node, 1,
                                     [val |-> val, saved |-> "", err |-> ""], mode)
            IN  [val |-> acc.val,
                 err |-> IF acc.err # "" THEN acc.err ELSE acc.saved]
      [] OTHER -> [val |-> val, err |-> ErrType]

\* json.Unmarshal(raw, &res): a decoder with neither option set.
PlainMode == [strict |-> FALSE, useNumber |-> FALSE]

\* JSONUnmarshal: decoder.UseNumber(); decoder.DisallowUnknownFields()
JSONUnmarshalMode == [strict |-> TRUE, useNumber |-> TRUE]

\* *j = append(*j, item)
AppendItem(j, item) == Append(j, item)

\* The body of the range over rawJSONAST, from element i on: [j, err].
UnmarshalElements(j, raws, i) ==
    IF i > Len(raws) THEN [j |-> j, err |-> ""]
    ELSE
      LET raw == raws[i]
      IN  CASE Kind(raw) = "object" ->
                 LET tag == FirstDiscriminant(raw)
                 IN  IF tag = "none" THEN [j |-> j, err |-> ErrUnknownType]
                     ELSE LET T == StructOf(tag)
                              r == DecodeStruct(T, Zero(T), raw, PlainMode)
                          IN  IF r.err # ""
                              THEN [j |-> j, err |-> ErrDecodeOf(tag)]
                              ELSE UnmarshalElements(AppendItem(j, r.val), raws, i + 1)
            [] Kind(raw) = "number" ->
                 UnmarshalElements(AppendItem(j, JsonNumber(raw[2])), raws, i + 1)
            [] OTHER ->
                 UnmarshalElements(
                     AppendItem(j, ValueInterface(raw, JSONUnmarshalMode.useNumber)),
                     raws, i + 1)

\* (j *ListMalType) UnmarshalJSON(b): [j, err], j being *j on return.
UnmarshalJSON(j, b) ==
    CASE Kind(b) = "malformed" -> [j |-> j, err |-> ErrSyntax]
      [] Kind(b) = "null" -> [j |-> j, err |-> ""]
      [] Kind(b) = "array" -> UnmarshalElements(j, b[2], 1)
      [] OTHER -> [j |-> j, err |-> ErrType]

\* JSONUnmarshal(buffer, &ast) for ast of type List holding val.
JSONUnmarshal(buffer, val) == DecodeStruct("List", val, buffer, JSONUnmarshalMode)

(***************************************************************************)
(* Inputs of the equality check                                            *)
(***************************************************************************)
FuncSum == Func("sum", Nil)
Closure == MalFunc("EVAL", Symbol(Plain("x")), "env0", List(<<Symbol(Plain("x"))>>, Nil),
                   FALSE, "NewEnv", Nil)

EqScalars ==
    {Nil, MkBool(TRUE), MkInt(1), MkInt(2), MkString(Plain("k")),
     NewKeyword("k"), Symbol(Plain("x")), Symbol(Plain("y")), FuncSum, Closure,
     AtomPtr(1), AtomPtr(2)}

\* Elements and map values of the composite inputs.
EqElems == {Nil, MkInt(1), MkInt(2), FuncSum}

SeqsUpTo(S, n) == UNION {[1..k -> S] : k \in 0..n}

EqKeys == {Plain("k"), Plain("other")}

MapsOver(K, S) == UNION {[D -> S] : D \in SUBSET K}

EqSeqs1 ==
    {List(s, Nil) : s \in SeqsUpTo(EqElems, MaxLen)}
    \cup {Vector(s, Nil) : s \in SeqsUpTo(EqElems, MaxLen)}
    \cup {List(<<MkInt(1)>>, MkInt(2)), Vector(<<MkInt(1)>>, MkString(Plain("k")))}

EqMaps1 == {HashMap(m, Nil) : m \in MapsOver(EqKeys, EqElems)}

\* One more level: a sequence or a map around a short composite.
EqInner ==
    {List(s, Nil) : s \in SeqsUpTo(EqElems, 1)}
    \cup {Vector(s, Nil) : s \in SeqsUpTo(EqElems, 1)}
    \cup {HashMap(m, Nil) : m \in MapsOver({Plain("k")}, EqElems)}

EqNested ==
    {List(<<x>>, Nil) : x \in EqInner}
    \cup {Vector(<<x>>, Nil) : x \in EqInner}
    \cup {HashMap([k \in {Plain("k")} |-> x], Nil) : x \in EqInner}

EqValues == EqScalars \cup EqSeqs1 \cup EqMaps1 \cup EqNested

(***************************************************************************)
(* Specification of the equality check                                     *)
(***************************************************************************)
EqIdle == eqA = Nil /\ eqB = Nil /\ eqRes = "none"
\* The (value, error) pair of a call that has not been made.
NotCalled == [val |-> Nil, err |-> "not called"]

DcIdle == dcWire = WNull /\ dcAst = List(<<>>, Nil) /\ dcErr = "not called"

ApIdle == apF = Nil /\ apArgs = <<>> /\ apCalls = <<>> /\ apRes = NotCalled

HmIdle == hmSeq = Nil /\ hmRes = NotCalled

InitEqual ==
    /\ eqA \in EqValues
    /\ eqB \in EqValues
    /\ eqRes = "none"
    /\ HmIdle
    /\ ApIdle
    /\ DcIdle

CallEqual_Q ==
    /\ eqRes = "none"
    /\ eqRes' \in Equal_Q(eqA, eqB)
    /\ UNCHANGED <<eqA, eqB, hmVars, apVars, dcVars>>

NextEqual == CallEqual_Q

SpecEqual == InitEqual /\ [][NextEqual]_vars

(***************************************************************************)
(* Specification of NewHashMap                                             *)
(***************************************************************************)
HmElems ==
    {MkString(Plain("a")), MkString(Plain("b")), NewKeyword("a"),
     MkInt(1), MkInt(2), Nil}

HmInputs ==
    {List(s, Nil) : s \in SeqsUpTo(HmElems, MaxHmLen)}
    \cup {Vector(s, Nil) : s \in SeqsUpTo(HmElems, MaxHmLen)}
    \cup {Nil, MkInt(1), MkString(Plain("a"))}

InitHashMap ==
    /\ hmSeq \in HmInputs
    /\ hmRes = NotCalled
    /\ EqIdle
    /\ ApIdle
    /\ DcIdle

CallNewHashMap ==
    /\ hmRes = NotCalled
    /\ hmRes' = NewHashMap(hmSeq)
    /\ UNCHANGED <<hmSeq, eqVars, apVars, dcVars>>

NextHashMap == CallNewHashMap

SpecHashMap == InitHashMap /\ [][NextHashMap]_vars

(***************************************************************************)
(* Specification of Apply                                                  *)
(***************************************************************************)
\* A bare func([]MalType) (MalType, error).
RawFunc == <<"func", "count">>

\* A second closure: other body, parameters and environment.
Closure2 == MalFunc("EVAL", List(<<Symbol(Plain("+")), Symbol(Plain("a")), MkInt(1)>>, Nil),
                    "env1", Vector(<<Symbol(Plain("a"))>>, Nil), FALSE, "NewEnv", Nil)

ApCallees == {Closure, Closure2, FuncSum, RawFunc, MkInt(1), Nil, List(<<>>, Nil)}

ApArgLists == SeqsUpTo({MkInt(1), MkInt(2)}, MaxArgs)

\* What GenEnv may return: an environment, an error, or both.
GenEnvReturns ==
    {[env |-> "child", err |-> ""], [env |-> "nil", err |-> "BindError"],
     [env |-> "child", err |-> "BindError"]}

\* What Eval and a host function may return.
ValueReturns ==
    {[val |-> MkInt(6), err |-> ""], [val |-> Nil, err |-> "thrown"]}

InitApply ==
    /\ apF \in ApCallees
    /\ apArgs \in ApArgLists
    /\ apCalls = <<>>
    /\ apRes = NotCalled
    /\ EqIdle
    /\ HmIdle
    /\ DcIdle

CallApply ==
    /\ apRes = NotCalled
    /\ \E gen \in GenEnvReturns, ev \in ValueReturns, fn \in ValueReturns :
          LET r == Apply(apF, apArgs, gen, ev, fn)
          IN  /\ apCalls' = r.calls
              /\ apRes' = [val |-> r.val, err |-> r.err]
    /\ UNCHANGED <<apF, apArgs, eqVars, hmVars, dcVars>>

CallSetMacro ==
    /\ apRes = NotCalled
    /\ MalFunc_Q(apF)
    /\ apF' = SetMacro(apF)
    /\ UNCHANGED <<apArgs, apCalls, apRes, eqVars, hmVars, dcVars>>

NextApply == CallApply \/ CallSetMacro

SpecApply == InitApply /\ [][NextApply]_vars

(***************************************************************************)
(* Specification of the decoder                                            *)
(***************************************************************************)
Member1(key, node) == WObj(<< <<key, node>> >>)
Member2(key1, node1, key2, node2) == WObj(<< <<key1, node1>>, <<key2, node2>> >>)

WireLeaves == {WNum("1"), WNum(BigLit), WStr(Plain("foo"))}

WSymbolX == Member1("symbol", WStr(Plain("x")))
WSymbolBogus == Member2("symbol", WStr(Plain("x")), "bogus", WNum("1"))
WSymbolAndList == Member2("symbol", WStr(Plain("x")), "list", WArr(<<>>))
WUnknown == Member1("unknown", WNum("1"))

\* Objects whose payload holds leaves only.
WireObjects ==
    {WSymbolX, WSymbolBogus, WSymbolAndList, WUnknown,
     Member1("symbol", WNum("1")),
     Member1("fn", WNull), Member1("fn", WNum("1")),
     Member2("atom", WStr(Plain("foo")), "meta", WNum(BigLit)),
     Member2("list", WArr(<<>>), "meta", WNum(BigLit)),
     Member1("list", WNum("1")),
     Member1("vector", WArr(<<WSymbolBogus>>)),
     Member1("hashmap", WObj(<< <<"k", WSymbolBogus>> >>)),
     Member1("atom", WSymbolBogus),
     Member1("list", WArr(<<WNum("1"), WUnknown>>))}
    \cup {Member1("atom", n) : n \in WireLeaves}
    \cup {Member1("list", WArr(<<n>>)) : n \in WireLeaves}
    \cup {Member1("vector", WArr(<<n>>)) : n \in WireLeaves}
    \cup {Member1("hashmap", WObj(<< <<"k", n>> >>)) : n \in WireLeaves}

\* A list around an object: one level deeper.
WireDeeper ==
    {Member1("list", WArr(<<x>>)) :
        x \in {WSymbolBogus, WUnknown,
               Member1("vector", WArr(<<WNum(BigLit)>>)),
               Member1("list", WArr(<<WNum(BigLit)>>)),
               Member1("atom", WNum(BigLit))}}

WireElements ==
    WireLeaves \cup {WNull, WBool(TRUE), WArr(<<WNum("1")>>)}
    \cup WireObjects \cup WireDeeper

\* The wire texts handed to JSONUnmarshal.
WireInputs ==
    {Member1("list", WArr(s)) : s \in SeqsUpTo(WireElements, MaxWireLen)}
    \cup {Member2("list", WArr(<<n>>), "meta", WNum(BigLit)) : n \in WireLeaves}
    \cup {Member2("list", WArr(<<n>>), "bogus", WNum("1")) : n \in WireLeaves}
    \cup {Member2("bogus", WNum("1"), "list", WArr(<<n>>)) : n \in WireLeaves}
    \cup {WBad, WNull, WNum("1"), WArr(<<WNum("1")>>), WUnknown,
          Member1("list", WNum("1")), Member1("list", WNull)}

InitDecode ==
    /\ dcWire \in WireInputs
    /\ dcAst = List(<<>>, Nil)
    /\ dcErr = "not called"
    /\ EqIdle
    /\ HmIdle
    /\ ApIdle

\* var ast List; err := JSONUnmarshal(buffer, &ast)
CallJSONUnmarshal ==
    /\ dcErr = "not called"
    /\ LET r == JSONUnmarshal(dcWire, dcAst)
       IN  /\ dcAst' = r.val
           /\ dcErr' = r.err
    /\ UNCHANGED <<dcWire, eqVars, hmVars, apVars>>

NextDecode == CallJSONUnmarshal

SpecDecode == InitDecode /\ [][NextDecode]_vars

(***************************************************************************)
(* Properties of Equal_Q                                                   *)
(***************************************************************************)
EqDone == eqRes # "none"

\* Every key of a is a key of b with an Equal value.
KeysCovered(a, b) ==
    \A k \in DOMAIN a[2] :
        k \in DOMAIN b[2] /\ Equal_Q(a[2][k], b[2][k]) = {"true"}

\* Every key of a is in b with an Equal value and b has additional keys.
StrictSubMap(a, b) ==
    /\ HashMap_Q(a) /\ HashMap_Q(b)
    /\ KeysCovered(a, b)
    /\ DOMAIN b[2] \ DOMAIN a[2] # {}

\* C1: Equal_Q is total: on every pair of values, function values and
\* composites holding them included, the call returns true or false and
\* never aborts.
C1_EqualTotal == EqDone => eqRes \in {"true", "false"}

\* C2 as stated: when every key of a is in b with an Equal value and b has
\* additional keys, Equal_Q(a, b) is true and Equal_Q(b, a) is false.
C2_Asymmetric ==
    EqDone =>
        /\ StrictSubMap(eqA, eqB) => eqRes = "true"
        /\ StrictSubMap(eqB, eqA) => eqRes = "false"

\* C2 amended: when every key of a is in b with an Equal value and b has
\* additional keys, Equal_Q(a, b) and Equal_Q(b, a) are both false (the key
\* counts differ).
C2_BothFalse ==
    EqDone =>
        /\ StrictSubMap(eqA, eqB) => eqRes = "false"
        /\ StrictSubMap(eqB, eqA) => eqRes = "false"

\* a = {k: 1} was compared with b = {k: 1, other: 2}.
C2_Witness ==
    /\ EqDone
    /\ eqA = HashMap([k \in {Plain("k")} |-> MkInt(1)], Nil)
    /\ eqB = HashMap([k \in EqKeys |->
                        IF k = Plain("k") THEN MkInt(1) ELSE MkInt(2)], Nil)
    /\ StrictSubMap(eqA, eqB)
    /\ eqRes = "false"

\* C3: two HashMaps are Equal_Q iff they have the same number of keys and
\* every key of a is a key of b with an Equal_Q value; a key of a that b
\* lacks makes the result false, also when a holds nil for it.
C3_HashMapIff ==
    (EqDone /\ HashMap_Q(eqA) /\ HashMap_Q(eqB)) =>
        (eqRes = "true" <=>
            /\ Cardinality(DOMAIN eqA[2]) = Cardinality(DOMAIN eqB[2])
            /\ KeysCovered(eqA, eqB))

\* C4: a List and a Vector holding the same ordered elements are Equal_Q in
\* both orders, and two sequential values are Equal_Q iff they have the same
\* element count and every positional pair is Equal_Q.
C4_SeqEquivalence ==
    (EqDone /\ Sequential_Q(eqA) /\ Sequential_Q(eqB)) =>
        /\ (TypeOf(eqA) # TypeOf(eqB) /\ eqA[2] = eqB[2]) => eqRes = "true"
        /\ eqRes = "true" <=>
               /\ Len(eqA[2]) = Len(eqB[2])
               /\ \A i \in 1..Len(eqA[2]) :
                      Equal_Q(eqA[2][i], eqB[2][i]) = {"true"}

(***************************************************************************)
(* Properties of NewHashMap                                                *)
(***************************************************************************)
HmDone == hmRes # NotCalled

\* The 1-based key positions 1, 3, ... of a sequence.
KeyPositions(lst) == {i \in 1..Len(lst) : i % 2 = 1}

SomeKeyNotString(lst) == \E i \in KeyPositions(lst) : ~String_Q(lst[i])

\* C6, the failures: on a List or Vector, an odd element count gives the
\* arity error, an even count with a key position that holds no string gives
\* the key-type error, and on either failure no HashMap is returned; any
\* other sequence gives a HashMap.
HmFailures ==
    (HmDone /\ Sequential_Q(hmSeq)) =>
        LET lst == hmSeq[2]
        IN  /\ Len(lst) % 2 = 1 => hmRes.err = ErrOdd
            /\ (Len(lst) % 2 = 0 /\ SomeKeyNotString(lst)) => hmRes.err = ErrKey
            /\ hmRes.err # "" => hmRes.val = Nil
            /\ (Len(lst) % 2 = 0 /\ ~SomeKeyNotString(lst)) =>
                   (hmRes.err = "" /\ HashMap_Q(hmRes.val))

\* C6 as stated: besides the failures, a success maps each key element to
\* the element that follows it.
C6_EachKeyToNext ==
    /\ HmFailures
    /\ (HmDone /\ Sequential_Q(hmSeq) /\ hmRes.err = "") =>
           LET lst == hmSeq[2]
               m == hmRes.val[2]
           IN  /\ DOMAIN m = {lst[i][2] : i \in KeyPositions(lst)}
               /\ \A i \in KeyPositions(lst) : m[lst[i][2]] = lst[i + 1]

\* The last key position of lst that holds the key k.
LastPosition(lst, k) ==
    CHOOSE i \in KeyPositions(lst) :
        /\ lst[i][2] = k
        /\ \A j \in KeyPositions(lst) : lst[j][2] = k => j <= i

\* C6 amended: besides the failures, a success maps each key to the element
\* that follows the last occurrence of that key.
C6_KeyToNextOfLast ==
    /\ HmFailures
    /\ (HmDone /\ Sequential_Q(hmSeq) /\ hmRes.err = "") =>
           LET lst == hmSeq[2]
               m == hmRes.val[2]
           IN  /\ DOMAIN m = {lst[i][2] : i \in KeyPositions(lst)}
               /\ \A k \in DOMAIN m : m[k] = lst[LastPosition(lst, k) + 1]

\* NewHashMap succeeded on ["a", 1, "a", 2], a sequence that repeats a key.
C6_Witness ==
    /\ HmDone
    /\ hmSeq = List(<<MkString(Plain("a")), MkInt(1),
                      MkString(Plain("a")), MkInt(2)>>, Nil)
    /\ hmRes.err = ""
    /\ hmRes.val[2][Plain("a")] = MkInt(2)

(***************************************************************************)
(* Properties of Apply                                                     *)
(***************************************************************************)
ApDone == apRes # NotCalled

\* C5: Apply on a MalFunc calls GenEnv first, with (Env, Params, the
\* arguments as a List); when GenEnv returns an error Apply returns that
\* error and Eval is never invoked; otherwise Eval is invoked exactly once,
\* with (Exp, the new environment), and its result or error is returned.
C5_GenEnvThenEval ==
    (ApDone /\ MalFunc_Q(apF)) =>
        /\ Len(apCalls) >= 1
        /\ apCalls[1][1] = "GenEnv"
        /\ <<apCalls[1][3], apCalls[1][4], apCalls[1][5]>>
               = <<apF[4], apF[5], List(apArgs, Nil)>>
        /\ IF apCalls[1][7] # ""
           THEN /\ apRes.err = apCalls[1][7]
                /\ \A i \in 1..Len(apCalls) : apCalls[i][1] # "Eval"
           ELSE /\ Cardinality({i \in 1..Len(apCalls) : apCalls[i][1] = "Eval"}) = 1
                /\ apCalls[2][1] = "Eval"
                /\ <<apCalls[2][3], apCalls[2][4]>> = <<apF[3], apCalls[1][6]>>
                /\ apRes = [val |-> apCalls[2][5], err |-> apCalls[2][6]]

\* Apply ran on a closure whose GenEnv returned an error.
C5_Witness ==
    /\ ApDone
    /\ MalFunc_Q(apF)
    /\ apArgs # <<>>
    /\ apCalls[1][7] = "BindError"
    /\ apRes.err = "BindError"

(***************************************************************************)
(* Properties of the decoder                                               *)
(***************************************************************************)
DcDone == dcErr # "not called"

\* A wire object that carries a field its variant does not know, at any
\* depth of the wire schema.
RECURSIVE HasExtraField(_)
HasExtraField(node) ==
    CASE Kind(node) = "array" ->
           \E i \in 1..Len(node[2]) : HasExtraField(node[2][i])
      [] Kind(node) = "object" ->
           LET tag == FirstDiscriminant(node)
           IN  IF tag = "none" THEN FALSE
               ELSE LET p == Member(node, tag)
                    IN  \/ ~(Keys(node) \subseteq FieldTags(StructOf(tag)))
                        \/ "meta" \in Keys(node) /\ HasExtraField(Member(node, "meta"))
                        \/ tag = "atom" /\ HasExtraField(p)
                        \/ /\ tag \in {"list", "vector"}
                           /\ Kind(p) = "array"
                           /\ \E i \in 1..Len(p[2]) : HasExtraField(p[2][i])
                        \/ /\ tag = "hashmap"
                           /\ Kind(p) = "object"
                           /\ \E k \in Keys(p) : HasExtraField(Member(p, k))
      [] OTHER -> FALSE

\* C7: decoding is strict at every level: a wire object that carries a field
\* its variant does not recognise is rejected with an error, at the top
\* level and nested at any depth alike.
C7_StrictEverywhere == (DcDone /\ HasExtraField(dcWire)) => dcErr # ""

\* The numbers held by a decoded value, at any depth.
RECURSIVE NumbersIn(_)
NumbersIn(v) ==
    LET inSeq(elems) == UNION {NumbersIn(elems[i]) : i \in 1..Len(elems)}
        inMap(m) == UNION {NumbersIn(m[k]) : k \in DOMAIN m}
    IN  CASE TypeOf(v) \in {"json.Number", "float64", "int"} -> {v}
          [] TypeOf(v) \in {"List", "Vector"} -> inSeq(v[2]) \cup NumbersIn(v[3])
          [] TypeOf(v) = "HashMap" -> inMap(v[2]) \cup NumbersIn(v[3])
          [] TypeOf(v) = "Atom" -> NumbersIn(v[2]) \cup NumbersIn(v[3])
          [] TypeOf(v) = "Func" -> NumbersIn(v[3])
          [] TypeOf(v) = "[]interface {}" -> inSeq(v[2])
          [] TypeOf(v) = "map[string]interface {}" -> inMap(v[2])
          [] OTHER -> {}

\* The numeric literals of a wire text.
RECURSIVE LiteralsIn(_)
LiteralsIn(node) ==
    CASE Kind(node) = "number" -> {node[2]}
      [] Kind(node) = "array" ->
           UNION {LiteralsIn(node[2][i]) : i \in 1..Len(node[2])}
      [] Kind(node) = "object" ->
           UNION {LiteralsIn(node[2][i][2]) : i \in 1..Len(node[2])}
      [] OTHER -> {}

\* C8: every numeric literal is decoded through the exact-text path, never
\* through a float64, wherever it occurs: each number of the decoded value is
\* a json.Number and carries the digits of a literal of the input.
C8_ExactNumbers ==
    (DcDone /\ dcErr = "") =>
        \A n \in NumbersIn(dcAst) :
            TypeOf(n) = "json.Number" /\ n[2] \in LiteralsIn(dcWire)

\* C9: a failed decode is atomic: when JSONUnmarshal returns an error the
\* destination list holds no element of the failed attempt.
C9_FailureAtomic == (DcDone /\ dcErr # "") => dcAst[2] = <<>>

\* The variant predicate of a wire node's shape, applied to a decoded value.
ShapeAgrees(node, v) ==
    CASE Kind(node) = "number" -> Number_Q(v)
      [] Kind(node) = "string" -> String_Q(v)
      [] Kind(node) = "object" /\ FirstDiscriminant(node) = "symbol" -> Symbol_Q(v)
      [] Kind(node) = "object" /\ FirstDiscriminant(node) = "atom" -> Atom_Q(v)
      [] Kind(node) = "object" /\ FirstDiscriminant(node) = "list" -> List_Q(v)
      [] Kind(node) = "object" /\ FirstDiscriminant(node) = "vector" -> Vector_Q(v)
      [] Kind(node) = "object" /\ FirstDiscriminant(node) = "hashmap" -> HashMap_Q(v)
      [] OTHER -> TRUE

\* C10: the decoder and the predicates agree: every element decoded from a
\* wire node satisfies the predicate of the node's variant (Number_Q for a
\* numeric literal, Atom_Q for an atom node, and so on).
C10_PredicatesAgree ==
    (/\ DcDone /\ dcErr = ""
     /\ Kind(dcWire) = "object" /\ Keys(dcWire) = {"list"}
     /\ Kind(Member(dcWire, "list")) = "array") =>
        LET raws == Member(dcWire, "list")[2]
        IN  /\ Len(dcAst[2]) = Len(raws)
            /\ \A i \in 1..Len(raws) : ShapeAgrees(raws[i], dcAst[2][i])

====
